---------------------------- MODULE Spec2Model ----------------------------
(***************************************************************************)
(* A model of the aggregation pipeline of gen_news.py: the feed fallback   *)
(* walk (_fetch_rss), the translation batcher (_translate_summaries) and   *)
(* the orchestrator (fetch_all) with its two worker-pool stages.           *)
(*                                                                         *)
(* Texts are represented by the attributes the pipeline reads from them:   *)
(* the length (len), whether more than 20% of the characters are Chinese   *)
(* (zh, read by _is_chinese) and whether the lower-cased, stripped text    *)
(* starts with the first 30 characters of the item's lower-cased, stripped *)
(* title (echo, read by _is_summary_useless).  Instants are minutes since  *)
(* the epoch.                                                              *)
(***************************************************************************)
EXTENDS Integers, Sequences, FiniteSets, TLC

VARIABLES
    pc,               \* position of fetch_all / _translate_summaries
    now,              \* datetime.now(timezone.utc) read at line 552
    net,              \* what the network answers each source's fetch
    futures,          \* fetch stage: source name -> future
    all_news,         \* fetch_all's all_news
    filtered,         \* fetch_all's filtered (the working collection)
    limited0,         \* the capped collection as line 532 leaves it
    need_enrich,      \* indices (into filtered) of the items to enrich
    future_map,       \* enrichment stage: position in need_enrich -> future
    to_translate,     \* _translate_summaries: indices of the candidates
    trPos,            \* _translate_summaries: position of the for loop
    batch_texts,      \* _translate_summaries: the texts of the current batch
    batch_indices,    \* _translate_summaries: their items' indices
    batch_char_count, \* _translate_summaries: its character count
    items0,           \* the items as _translate_summaries received them
    calls,            \* every translate_batch call made, in order
    raised,           \* an exception left the modelled function
    stages,           \* the stages fetch_all has started, in order
    rssPc,            \* position of _fetch_rss
    rssNet,           \* what the network answers each candidate URL
    rssIdx,           \* _fetch_rss: index of the next candidate URL
    rssAttempted,     \* _fetch_rss: the candidates attempted, in order
    entries,          \* _fetch_rss: entries
    rssResults,       \* _fetch_rss: results
    fetchPc,          \* position of a single fetch_source call
    fetchArg,         \* fetch_source: its source argument
    raw,              \* what the source's site answers, before extraction
    tz,               \* the process's local UTC offset, in minutes
    fetched,          \* fetch_source: the list it returned
    ogPc,             \* position of a single _fetch_og_description call
    page,             \* what the article page answers
    search,           \* what the search engine answers
    ogResult          \* _fetch_og_description: what it returned

vars == <<pc, now, net, futures, all_news, filtered, limited0, need_enrich,
          future_map, to_translate, trPos, batch_texts, batch_indices,
          batch_char_count, items0, calls, raised, stages, rssPc, rssNet, rssIdx, rssAttempted,
          entries, rssResults, fetchPc, fetchArg, raw, tz, fetched,
          ogPc, page, search, ogResult>>

pipeVars == <<pc, now, net, futures, all_news, filtered, limited0, need_enrich,
              future_map, stages>>
trVars == <<to_translate, trPos, batch_texts, batch_indices, batch_char_count,
            items0, calls>>
rssVars == <<rssPc, rssNet, rssIdx, rssAttempted, entries, rssResults>>
fetchVars == <<fetchPc, fetchArg, raw, tz, fetched>>
ogVars == <<ogPc, page, search, ogResult>>

----------------------------------------------------------------------------
(* Program constants *)

MAX_ITEMS_PER_SOURCE == 5
SUMMARY_CAP == 500
USELESS_BELOW == 150
META_ABOVE == 30
META_ENOUGH == 150
PARA_ABOVE == 40
PARAS_ENOUGH == 400
BATCH_BUDGET == 4500
MIN_TRANSLATED == 10
TITLE_CAP == 80
TITLE_FROM_CONTENT == 60
DATETIME_MIN == -1035593280

Day == 24 * 60
TwoWeeks == 2 * 7 * Day

(* Bounds of the model *)

MaxRich == 2
MaxTimed == 3
MaxCls == 8
MaxTrItems == 3
MaxAlt == 2
MaxEntries == 6
MaxRaw == 2
MaxParas == 3
MaxOrder == 6

----------------------------------------------------------------------------
(* Values *)

Text(n, zh, echo) == [len |-> n, zh |-> zh, echo |-> echo]
EmptyText == Text(0, FALSE, FALSE)

NoTime == [kind |-> "empty", wall |-> 0, off |-> 0]
Garbage == [kind |-> "garbage", wall |-> 0, off |-> 0]
Naive(w) == [kind |-> "naive", wall |-> w, off |-> 0]
Aware(w, o) == [kind |-> "aware", wall |-> w, off |-> o]

Unset == [st |-> "unset", t |-> 0]
None == [st |-> "none", t |-> 0]
Known(t) == [st |-> "known", t |-> t]

SOURCES ==
    << [name |-> "CNBC", category |-> "intl", method |-> "rss"],
       [name |-> "CLS", category |-> "finance", method |-> "cls_api"] >>

SourceNames == {SOURCES[i].name : i \in DOMAIN SOURCES}
SourceOf(name) == CHOOSE s \in {SOURCES[i] : i \in DOMAIN SOURCES} : s.name = name

NewsItem(src, pos, tlen, summary, link, time, kw) ==
    [category |-> SourceOf(src).category, title |-> [len |-> tlen],
     summary |-> summary, source |-> src, link |-> link, time |-> time,
     pos |-> pos, kw |-> kw, dt |-> Unset]

RECURSIVE SeqSum(_)
SeqSum(s) == IF s = <<>> THEN 0 ELSE Head(s) + SeqSum(Tail(s))

----------------------------------------------------------------------------
(* Helpers of the program *)

_truncate(text, n) ==
    IF text.len > n THEN [text EXCEPT !.len = n + 1] ELSE text

StartsWithTitle(title, summary) == title.len = 0 \/ summary.echo

_is_summary_useless(title, summary) ==
    IF summary.len = 0 \/ summary.len < USELESS_BELOW
    THEN TRUE
    ELSE StartsWithTitle(title, summary)

_matches_keywords(item) == item.kw

_is_chinese(text) == IF text.len = 0 THEN TRUE ELSE text.zh

_parse_time(time_str) ==
    CASE time_str.kind = "empty" -> None
      [] time_str.kind = "garbage" -> None
      [] time_str.kind = "naive" -> Known(time_str.wall)
      [] time_str.kind = "aware" -> Known(time_str.wall - time_str.off)

(* The fetcher that source.method selects either raises (response.raises)  *)
(* or returns items; the try/except of fetch_source turns the exception    *)
(* into an empty list.                                                     *)
fetch_source_no_except(source, response) ==
    [exc |-> response.raises,
     items |-> IF response.raises THEN <<>> ELSE response.items]

fetch_source(source, response) ==
    IF response.raises
    THEN [exc |-> FALSE, items |-> <<>>]
    ELSE [exc |-> FALSE, items |-> response.items]

(* Lines 523-532: the per-source cap. *)
WithinCapOffByOne(count) == count < MAX_ITEMS_PER_SOURCE

WithinCap(count) == count <= MAX_ITEMS_PER_SOURCE

(* Line 526: the key an item is counted under. *)
CapKeyShared(n) == "CNBC"

CapKey(n) == n.source

RECURSIVE CapLoop(_, _, _, _)
CapLoop(items, i, source_count, limited) ==
    IF i > Len(items)
    THEN limited
    ELSE LET src == CapKey(items[i])
             c == source_count[src] + 1
         IN CapLoop(items, i + 1, [source_count EXCEPT ![src] = c],
                    IF WithinCap(c) THEN Append(limited, items[i]) ELSE limited)

PerSourceCap(items) == CapLoop(items, 1, [s \in SourceNames |-> 0], <<>>)

(* Line 535: the items to enrich, as indices into filtered. *)
NeedsEnrichIgnoringLink(n) == _is_summary_useless(n.title, n.summary)

NeedsEnrich(n) == _is_summary_useless(n.title, n.summary) /\ n.link # ""

RECURSIVE Ascending(_, _, _)
Ascending(S, i, n) ==
    IF i > n
    THEN <<>>
    ELSE (IF i \in S THEN <<i>> ELSE <<>>) \o Ascending(S, i + 1, n)

NeedEnrichIndices(items) ==
    Ascending({i \in DOMAIN items : NeedsEnrich(items[i])}, 1, Len(items))

(* Lines 543-544: the update of an item with its enrichment result. *)
ApplyEnrichmentAlways(item, desc) ==
    IF desc.len # 0
    THEN [item EXCEPT !.summary = _truncate(desc, SUMMARY_CAP)]
    ELSE item

ApplyEnrichment(item, desc) ==
    IF desc.len # 0 /\ desc.len > item.summary.len
    THEN [item EXCEPT !.summary = _truncate(desc, SUMMARY_CAP)]
    ELSE item

(* Lines 465-468: the translation candidates. *)
IsCandidate(item) == item.summary.len # 0 /\ ~_is_chinese(item.summary)

(* Lines 482-493: _flush_batch on a non-empty batch.  outcome is what        *)
(* translate_batch does: it raises (failed) or returns results.            *)
RECURSIVE ApplyResults(_, _, _, _)
ApplyResults(items, idxs, results, k) ==
    IF k > Len(idxs) \/ k > Len(results)
    THEN items
    ELSE LET r == results[k]
             upd == IF r.len # 0 /\ r.len > MIN_TRANSLATED
                    THEN [items EXCEPT ![idxs[k]].summary = _truncate(r, SUMMARY_CAP)]
                    ELSE items
         IN ApplyResults(upd, idxs, results, k + 1)

_flush_batch_no_except(items, idxs, outcome) ==
    IF outcome.failed
    THEN [items |-> items, exc |-> TRUE]
    ELSE [items |-> ApplyResults(items, idxs, outcome.results, 1), exc |-> FALSE]

_flush_batch(items, idxs, outcome) ==
    IF outcome.failed
    THEN [items |-> items, exc |-> FALSE]
    ELSE [items |-> ApplyResults(items, idxs, outcome.results, 1), exc |-> FALSE]

(* Line 497: whether the batch is flushed before the text is added. *)
MustFlushLate(count, textLen, batch) == count > BATCH_BUDGET /\ batch # <<>>

MustFlush(count, textLen, batch) ==
    count + textLen > BATCH_BUDGET /\ batch # <<>>

(* Lines 557 and 562: the freshness test and the stable descending sort. *)
IsFreshStrictly(n, cutoff) == n.dt.st = "none" \/ n.dt.t > cutoff

IsFresh(n, cutoff) == n.dt.st = "none" \/ n.dt.t >= cutoff

SortKey(n) == IF n.dt.st = "known" THEN n.dt.t ELSE DATETIME_MIN

InsertAsc(sorted, n) ==
    LET p == Cardinality({j \in DOMAIN sorted : SortKey(sorted[j]) <= SortKey(n)})
    IN SubSeq(sorted, 1, p) \o <<n>> \o SubSeq(sorted, p + 1, Len(sorted))

InsertDesc(sorted, n) ==
    LET p == Cardinality({j \in DOMAIN sorted : SortKey(sorted[j]) >= SortKey(n)})
    IN SubSeq(sorted, 1, p) \o <<n>> \o SubSeq(sorted, p + 1, Len(sorted))

RECURSIVE SortDescFrom(_, _, _)
SortDescFrom(items, i, sorted) ==
    IF i > Len(items)
    THEN sorted
    ELSE SortDescFrom(items, i + 1, InsertDesc(sorted, items[i]))

SortDesc(items) == SortDescFrom(items, 1, <<>>)

----------------------------------------------------------------------------
(* What the environment may answer *)

(* The clock reading of line 552. *)
Clock0 == 100 * Day
NowChoices == {Clock0}

(* _fetch_og_description's result for an article: empty when every tier     *)
(* fails, otherwise a text of some length.                                 *)
Descs == {EmptyText, Text(149, FALSE, FALSE), Text(600, FALSE, FALSE)}

(* One translated text: too short to be applied, or longer than the        *)
(* summary cap.                                                            *)
ReplyTexts == {Text(10, TRUE, FALSE), Text(600, TRUE, FALSE)}

Outcomes(n) ==
    {[failed |-> TRUE, results |-> <<>>]}
        \cup {[failed |-> FALSE, results |-> r] : r \in [1..n -> ReplyTexts]}

Ok(items) == [raises |-> FALSE, items |-> items]
Raises == [raises |-> TRUE, items |-> <<>>]

----------------------------------------------------------------------------
(* fetch_all, lines 510-564 *)

NoFuture == [st |-> "none", exc |-> FALSE, items |-> <<>>, submits |-> 0,
             consumed |-> 0]

(* Line 516: one fetch task per source. *)
SubmitFetch ==
    /\ pc = "start"
    /\ futures' = [s \in SourceNames |->
                      [futures[s] EXCEPT !.st = "running", !.submits = @ + 1]]
    /\ stages' = Append(stages, "fetch")
    /\ pc' = "fetch"
    /\ UNCHANGED <<now, net, all_news, filtered, limited0, need_enrich,
                   future_map, raised>>
    /\ UNCHANGED trVars
    /\ UNCHANGED rssVars
    /\ UNCHANGED fetchVars
    /\ UNCHANGED ogVars

(* A pool worker runs fetch_source(s) and fills its future. *)
FetchWorker(s) ==
    /\ pc = "fetch"
    /\ futures[s].st = "running"
    /\ LET r == fetch_source(SourceOf(s), net[s])
       IN futures' = [futures EXCEPT ![s] =
                         [@ EXCEPT !.st = "done", !.exc = r.exc, !.items = r.items]]
    /\ UNCHANGED <<pc, now, net, all_news, filtered, limited0, need_enrich,
                   future_map, raised, stages>>
    /\ UNCHANGED trVars
    /\ UNCHANGED rssVars
    /\ UNCHANGED fetchVars
    /\ UNCHANGED ogVars

(* Lines 517-518: the orchestrator takes a completed future's result. *)
FetchCollect(s) ==
    /\ pc = "fetch"
    /\ futures[s].st = "done"
    /\ futures' = [futures EXCEPT ![s] =
                      [@ EXCEPT !.st = "consumed", !.consumed = @ + 1]]
    /\ IF futures[s].exc
       THEN /\ raised' = TRUE
            /\ pc' = "raised"
            /\ UNCHANGED all_news
       ELSE /\ all_news' = all_news \o futures[s].items
            /\ UNCHANGED <<pc, raised>>
    /\ UNCHANGED <<now, net, filtered, limited0, need_enrich, future_map, stages>>
    /\ UNCHANGED trVars
    /\ UNCHANGED rssVars
    /\ UNCHANGED fetchVars
    /\ UNCHANGED ogVars

(* The as_completed loop of lines 517-518 ends when every future was taken. *)
FetchLoopEndsEarly(futs) == \E s \in DOMAIN futs : futs[s].st = "consumed"

FetchLoopEnded(futs) == \A s \in DOMAIN futs : futs[s].st = "consumed"

(* Line 519: the relevance filter. *)
Filter ==
    /\ pc = "fetch"
    /\ FetchLoopEnded(futures)
    /\ filtered' = SelectSeq(all_news, _matches_keywords)
    /\ stages' = Append(stages, "filter")
    /\ pc' = "cap"
    /\ UNCHANGED <<now, net, futures, all_news, limited0, need_enrich,
                   future_map, raised>>
    /\ UNCHANGED trVars
    /\ UNCHANGED rssVars
    /\ UNCHANGED fetchVars
    /\ UNCHANGED ogVars

(* Lines 523-532. *)
Cap ==
    /\ pc = "cap"
    /\ filtered' = PerSourceCap(filtered)
    /\ limited0' = filtered'
    /\ stages' = Append(stages, "cap")
    /\ pc' = "select"
    /\ UNCHANGED <<now, net, futures, all_news, need_enrich, future_map, raised>>
    /\ UNCHANGED trVars
    /\ UNCHANGED rssVars
    /\ UNCHANGED fetchVars
    /\ UNCHANGED ogVars

NoEnrichFuture == [st |-> "running", desc |-> EmptyText, submits |-> 1,
                   consumed |-> 0]

(* Lines 535-539: select the items to enrich and submit one task for each. *)
SubmitEnrich ==
    /\ pc = "select"
    /\ need_enrich' = NeedEnrichIndices(filtered)
    /\ IF need_enrich' = <<>>
       THEN /\ future_map' = <<>>
            /\ pc' = "translate"
            /\ UNCHANGED stages
       ELSE /\ future_map' = [k \in 1..Len(need_enrich') |-> NoEnrichFuture]
            /\ stages' = Append(stages, "enrich")
            /\ pc' = "enrich"
    /\ UNCHANGED <<now, net, futures, all_news, filtered, limited0, raised>>
    /\ UNCHANGED trVars
    /\ UNCHANGED rssVars
    /\ UNCHANGED fetchVars
    /\ UNCHANGED ogVars

(* A pool worker runs _fetch_og_description(link) and fills its future. *)
EnrichWorker(k) ==
    /\ pc = "enrich"
    /\ future_map[k].st = "running"
    /\ \E d \in Descs :
          future_map' = [future_map EXCEPT ![k] = [@ EXCEPT !.st = "done", !.desc = d]]
    /\ UNCHANGED <<pc, now, net, futures, all_news, filtered, limited0,
                   need_enrich, raised, stages>>
    /\ UNCHANGED trVars
    /\ UNCHANGED rssVars
    /\ UNCHANGED fetchVars
    /\ UNCHANGED ogVars

(* Line 541: the item a completed task belongs to (future_map[fut]). *)
TaskItemShared(selected, k) == selected[1]

TaskItem(selected, k) == selected[k]

(* Lines 540-544: the orchestrator takes a result and updates its item. *)
EnrichCollect(k) ==
    /\ pc = "enrich"
    /\ future_map[k].st = "done"
    /\ future_map' = [future_map EXCEPT ![k] =
                         [@ EXCEPT !.st = "consumed", !.consumed = @ + 1]]
    /\ filtered' = [filtered EXCEPT ![TaskItem(need_enrich, k)] =
                       ApplyEnrichment(@, future_map[k].desc)]
    /\ UNCHANGED <<pc, now, net, futures, all_news, limited0, need_enrich,
                   raised, stages>>
    /\ UNCHANGED trVars
    /\ UNCHANGED rssVars
    /\ UNCHANGED fetchVars
    /\ UNCHANGED ogVars

EnrichLoopEnded(fmap) == \A k \in DOMAIN fmap : fmap[k].st = "consumed"

(* Lines 545-546: the enrichment stage is over. *)
EnrichEnd ==
    /\ pc = "enrich"
    /\ EnrichLoopEnded(future_map)
    /\ pc' = "translate"
    /\ UNCHANGED <<now, net, futures, all_news, filtered, limited0, need_enrich,
                   future_map, raised, stages>>
    /\ UNCHANGED trVars
    /\ UNCHANGED rssVars
    /\ UNCHANGED fetchVars
    /\ UNCHANGED ogVars

----------------------------------------------------------------------------
(* _translate_summaries, lines 462-507 (called at line 549) *)

Call(texts, idxs, outcome) ==
    [indices |-> idxs, lens |-> [k \in DOMAIN texts |-> texts[k].len],
     failed |-> outcome.failed, results |-> outcome.results]

(* Lines 464-479: collect the candidates; return at once when there are none. *)
TrBegin ==
    /\ pc = "translate"
    /\ to_translate' =
          Ascending({i \in DOMAIN filtered : IsCandidate(filtered[i])}, 1, Len(filtered))
    /\ items0' = filtered
    /\ trPos' = 1
    /\ batch_texts' = <<>>
    /\ batch_indices' = <<>>
    /\ batch_char_count' = 0
    /\ stages' = Append(stages, "translate")
    /\ pc' = IF to_translate' = <<>> THEN "parse" ELSE "tr_loop"
    /\ UNCHANGED <<now, net, futures, all_news, filtered, limited0, need_enrich,
                   future_map, calls, raised>>
    /\ UNCHANGED rssVars
    /\ UNCHANGED fetchVars
    /\ UNCHANGED ogVars

(* Lines 495-504: one iteration of the for loop. *)
TrStep ==
    /\ pc = "tr_loop"
    /\ trPos <= Len(to_translate)
    /\ LET idx == to_translate[trPos]
           text == items0[idx].summary
       IN IF MustFlush(batch_char_count, text.len, batch_texts)
          THEN \E out \in Outcomes(Len(batch_texts)) :
                  LET r == _flush_batch(filtered, batch_indices, out)
                  IN /\ filtered' = r.items
                     /\ calls' = Append(calls, Call(batch_texts, batch_indices, out))
                     /\ raised' = r.exc
                     /\ IF r.exc
                        THEN /\ pc' = "raised"
                             /\ UNCHANGED <<trPos, batch_texts, batch_indices,
                                            batch_char_count>>
                        ELSE /\ batch_texts' = <<text>>
                             /\ batch_indices' = <<idx>>
                             /\ batch_char_count' = text.len
                             /\ trPos' = trPos + 1
                             /\ UNCHANGED pc
          ELSE /\ batch_texts' = Append(batch_texts, text)
               /\ batch_indices' = Append(batch_indices, idx)
               /\ batch_char_count' = batch_char_count + text.len
               /\ trPos' = trPos + 1
               /\ UNCHANGED <<pc, filtered, calls, raised>>
    /\ UNCHANGED <<now, net, futures, all_news, limited0, need_enrich, future_map,
                   stages, to_translate, items0>>
    /\ UNCHANGED rssVars
    /\ UNCHANGED fetchVars
    /\ UNCHANGED ogVars

(* Lines 506-507: the last batch. *)
TrFinal ==
    /\ pc = "tr_loop"
    /\ trPos > Len(to_translate)
    /\ IF batch_texts = <<>>
       THEN /\ pc' = "parse"
            /\ UNCHANGED <<filtered, calls, raised>>
       ELSE \E out \in Outcomes(Len(batch_texts)) :
               LET r == _flush_batch(filtered, batch_indices, out)
               IN /\ filtered' = r.items
                  /\ calls' = Append(calls, Call(batch_texts, batch_indices, out))
                  /\ raised' = r.exc
                  /\ pc' = IF r.exc THEN "raised" ELSE "parse"
    /\ UNCHANGED <<now, net, futures, all_news, limited0, need_enrich, future_map,
                   stages, to_translate, items0, trPos, batch_texts, batch_indices,
                   batch_char_count>>
    /\ UNCHANGED rssVars
    /\ UNCHANGED fetchVars
    /\ UNCHANGED ogVars

----------------------------------------------------------------------------
(* fetch_all, lines 551-564 *)

(* Lines 552-554: read the clock, resolve every item's time. *)
ParseTimes ==
    /\ pc = "parse"
    /\ \E n \in NowChoices : now' = n
    /\ filtered' = [i \in DOMAIN filtered |->
                       [filtered[i] EXCEPT !.dt = _parse_time(filtered[i].time)]]
    /\ stages' = Append(stages, "parse")
    /\ pc' = "cutoff"
    /\ UNCHANGED <<net, futures, all_news, limited0, need_enrich, future_map, raised>>
    /\ UNCHANGED trVars
    /\ UNCHANGED rssVars
    /\ UNCHANGED fetchVars
    /\ UNCHANGED ogVars

(* Lines 556-557: the freshness cutoff. *)
Cutoff ==
    /\ pc = "cutoff"
    /\ LET cutoff == now - TwoWeeks
       IN filtered' = SelectSeq(filtered, LAMBDA n : IsFresh(n, cutoff))
    /\ stages' = Append(stages, "cutoff")
    /\ pc' = "sort"
    /\ UNCHANGED <<now, net, futures, all_news, limited0, need_enrich, future_map,
                   raised>>
    /\ UNCHANGED trVars
    /\ UNCHANGED rssVars
    /\ UNCHANGED fetchVars
    /\ UNCHANGED ogVars

(* Lines 562-564: sort and return. *)
Sort ==
    /\ pc = "sort"
    /\ filtered' = SortDesc(filtered)
    /\ stages' = Append(stages, "sort")
    /\ pc' = "done"
    /\ UNCHANGED <<now, net, futures, all_news, limited0, need_enrich, future_map,
                   raised>>
    /\ UNCHANGED trVars
    /\ UNCHANGED rssVars
    /\ UNCHANGED fetchVars
    /\ UNCHANGED ogVars

Next ==
    \/ SubmitFetch
    \/ \E s \in SourceNames : FetchWorker(s)
    \/ \E s \in SourceNames : FetchCollect(s)
    \/ Filter
    \/ Cap
    \/ SubmitEnrich
    \/ \E k \in DOMAIN future_map : EnrichWorker(k)
    \/ \E k \in DOMAIN future_map : EnrichCollect(k)
    \/ EnrichEnd
    \/ TrBegin
    \/ TrStep
    \/ TrFinal
    \/ ParseTimes
    \/ Cutoff
    \/ Sort

----------------------------------------------------------------------------
(* Inputs *)

Profile(tlen, summary, link, time, kw) ==
    [tlen |-> tlen, summary |-> summary, link |-> link, time |-> time, kw |-> kw]

Mk(src, pos, p) == NewsItem(src, pos, p.tlen, p.summary, p.link, p.time, p.kw)

(* Every list of at most maxn items of a source, each built from a profile. *)
Lists(src, maxn, Profiles) ==
    UNION {{[i \in 1..n |-> Mk(src, i, f[i])] : f \in [1..n -> Profiles]} : n \in 0..maxn}

Recent == Naive(Clock0 - Day)
LongZh == Text(300, TRUE, FALSE)

(* Titles, summaries and links as the fetchers deliver them (the feed      *)
(* fetcher does not drop an entry whose title is empty).                   *)
RichProfiles ==
    { Profile(40, EmptyText, "u", Recent, TRUE),
      Profile(40, Text(149, FALSE, FALSE), "u", Recent, TRUE),
      Profile(40, Text(150, FALSE, FALSE), "u", Recent, TRUE),
      Profile(40, Text(300, FALSE, TRUE), "u", Recent, TRUE),
      Profile(40, Text(100, FALSE, FALSE), "", Recent, TRUE),
      Profile(0, Text(300, FALSE, FALSE), "u", Recent, TRUE) }

(* Times as the fetchers deliver them. *)
TimedProfiles ==
    { Profile(40, LongZh, "u", t, TRUE) :
        t \in { NoTime, Garbage, Naive(Clock0 - TwoWeeks), Naive(Clock0 - TwoWeeks - 1),
                Naive(Clock0 - 13 * Day), Naive(Clock0 - 15 * Day),
                Aware(Clock0 - Day + 480, 480) } }

(* Items of the API source, which does not cap its own result. *)
ClsProfiles == { Profile(40, LongZh, "u", Recent, kw) : kw \in BOOLEAN }

Plain == Profile(40, LongZh, "u", Naive(Clock0 - 13 * Day), TRUE)
Weak == Profile(40, Text(100, FALSE, FALSE), "u", NoTime, TRUE)

NetRich ==
    { [s \in SourceNames |-> IF s = "CNBC" THEN a ELSE b] :
        a \in {Raises} \cup {Ok(l) : l \in Lists("CNBC", MaxRich, RichProfiles)},
        b \in {Raises, Ok(<<Mk("CLS", 1, Plain)>>)} }

NetTimed ==
    { [s \in SourceNames |-> IF s = "CNBC" THEN a ELSE b] :
        a \in {Ok(l) : l \in Lists("CNBC", MaxTimed, TimedProfiles)},
        b \in {Ok(<<>>), Ok(<<Mk("CLS", 1, Plain)>>)} }
    \cup { [s \in SourceNames |-> Ok(<<Mk(s, 1, Weak)>>)] }

NetCap ==
    { [s \in SourceNames |-> IF s = "CLS" THEN a ELSE b] :
        a \in {Ok(l) : l \in Lists("CLS", MaxCls, ClsProfiles)},
        b \in {Ok(<<>>), Ok(<<Mk("CNBC", 1, Plain), Mk("CNBC", 2, Plain)>>)} }
    \cup { [s \in SourceNames |-> Ok(<<Mk(s, 1, Weak)>>)] }

InitIdle ==
    /\ now = 0
    /\ futures = [s \in SourceNames |-> NoFuture]
    /\ all_news = <<>>
    /\ limited0 = <<>>
    /\ need_enrich = <<>>
    /\ future_map = <<>>
    /\ to_translate = <<>>
    /\ trPos = 1
    /\ batch_texts = <<>>
    /\ batch_indices = <<>>
    /\ batch_char_count = 0
    /\ items0 = <<>>
    /\ calls = <<>>
    /\ raised = FALSE
    /\ stages = <<>>
    /\ rssIdx = 1
    /\ rssAttempted = <<>>
    /\ entries = <<>>
    /\ rssResults = <<>>

RssIdle == rssPc = "idle" /\ rssNet = <<>>

NoMeta == [present |-> FALSE, len |-> 0, placeholder |-> FALSE]

OgIdle ==
    /\ ogPc = "idle"
    /\ page = [fails |-> FALSE, og |-> NoMeta, meta |-> NoMeta, paragraphs |-> <<>>]
    /\ search = [fails |-> FALSE, snippets |-> <<>>]
    /\ ogResult = [len |-> 0, tier |-> "none", queried |-> FALSE]

FetchIdle ==
    /\ OgIdle
    /\ fetchPc = "idle"
    /\ fetchArg = SOURCES[1]
    /\ raw = [fails |-> FALSE, entries |-> <<>>, anchors |-> <<>>]
    /\ tz = 0
    /\ fetched = <<>>

Init == pc = "start" /\ net \in NetRich /\ filtered = <<>> /\ RssIdle /\ FetchIdle /\ InitIdle
InitTimed == pc = "start" /\ net \in NetTimed /\ filtered = <<>> /\ RssIdle /\ FetchIdle /\ InitIdle
InitCap == pc = "start" /\ net \in NetCap /\ filtered = <<>> /\ RssIdle /\ FetchIdle /\ InitIdle

(* Two sources whose results the completion order may merge either way:  *)
(* more matching items of the API source than the cap lets through, with   *)
(* unmatched and stale ones among them.                                    *)
Stale == Profile(40, LongZh, "u", Naive(Clock0 - 15 * Day), TRUE)

OrderProfiles ==
    { Profile(40, LongZh, "u", Recent, TRUE),
      Profile(40, LongZh, "u", Recent, FALSE),
      Stale }

NetOrder ==
    { [s \in SourceNames |-> IF s = "CLS" THEN a ELSE b] :
        a \in {Ok(l) : l \in Lists("CLS", MaxOrder, OrderProfiles)},
        b \in {Ok(<<>>), Ok(<<Mk("CNBC", 1, Stale), Mk("CNBC", 2, Plain)>>)} }
    \cup { [s \in SourceNames |-> Ok(<<Mk(s, 1, Weak)>>)] }

InitOrder == pc = "start" /\ net \in NetOrder /\ filtered = <<>> /\ RssIdle /\ FetchIdle /\ InitIdle

Spec == Init /\ [][Next]_vars
SpecOrder == InitOrder /\ [][Next]_vars
SpecTimed == InitTimed /\ [][Next]_vars
SpecCap == InitCap /\ [][Next]_vars

----------------------------------------------------------------------------
(* _translate_summaries on its own: any list of items *)

TrProfiles ==
    { Profile(40, EmptyText, "u", Recent, TRUE),
      Profile(40, Text(1000, TRUE, FALSE), "u", Recent, TRUE) }
    \cup { Profile(40, Text(n, FALSE, FALSE), "u", Recent, TRUE) :
             n \in {500, 1000, 3000, 4000, 4600} }

InitTr ==
    /\ pc = "translate"
    /\ filtered \in Lists("CNBC", MaxTrItems, TrProfiles)
    /\ net = [s \in SourceNames |-> Ok(<<>>)]
    /\ RssIdle
    /\ FetchIdle
    /\ InitIdle

NextTr == TrBegin \/ TrStep \/ TrFinal

SpecTr == InitTr /\ [][NextTr]_vars

----------------------------------------------------------------------------
(* _fetch_rss, lines 282-313 *)

(* What a candidate URL answers: the request or the parse raises (fails),  *)
(* or the feed parses to n entries.                                        *)
FeedResponses ==
    {[fails |-> TRUE, n |-> 0]} \cup {[fails |-> FALSE, n |-> m] : m \in 0..MaxEntries}

FeedEntries(u, n) == [k \in 1..n |-> [url |-> u, k |-> k]]

FirstN(s, n) == SubSeq(s, 1, IF Len(s) < n THEN Len(s) ELSE n)

(* Lines 292-293: the walk stops at entries. *)
WalkNeverStops(ents) == FALSE

WalkStops(ents) == ents # <<>>

(* Lines 286-296: one iteration of the loop over urls. *)
RssTry ==
    /\ rssPc = "loop"
    /\ rssIdx <= Len(rssNet)
    /\ rssAttempted' = Append(rssAttempted, rssIdx)
    /\ IF rssNet[rssIdx].fails
       THEN /\ rssIdx' = rssIdx + 1
            /\ UNCHANGED <<entries, rssPc>>
       ELSE /\ entries' = FirstN(FeedEntries(rssIdx, rssNet[rssIdx].n),
                                 MAX_ITEMS_PER_SOURCE)
            /\ IF WalkStops(entries')
               THEN rssPc' = "build" /\ UNCHANGED rssIdx
               ELSE rssIdx' = rssIdx + 1 /\ UNCHANGED rssPc
    /\ UNCHANGED <<rssNet, rssResults, raised>>
    /\ UNCHANGED pipeVars
    /\ UNCHANGED fetchVars
    /\ UNCHANGED ogVars
    /\ UNCHANGED trVars

(* The loop over urls is exhausted. *)
RssExhausted ==
    /\ rssPc = "loop"
    /\ rssIdx > Len(rssNet)
    /\ rssPc' = "build"
    /\ UNCHANGED <<rssNet, rssIdx, rssAttempted, entries, rssResults, raised>>
    /\ UNCHANGED pipeVars
    /\ UNCHANGED fetchVars
    /\ UNCHANGED ogVars
    /\ UNCHANGED trVars

(* Lines 298-313: one result per entry. *)
RssBuild ==
    /\ rssPc = "build"
    /\ rssResults' = [i \in DOMAIN entries |->
                      [source |-> "CNBC", url |-> entries[i].url, k |-> entries[i].k]]
    /\ rssPc' = "done"
    /\ UNCHANGED <<rssNet, rssIdx, rssAttempted, entries, raised>>
    /\ UNCHANGED pipeVars
    /\ UNCHANGED fetchVars
    /\ UNCHANGED ogVars
    /\ UNCHANGED trVars

InitRss ==
    /\ pc = "idle"
    /\ net = [s \in SourceNames |-> Ok(<<>>)]
    /\ filtered = <<>>
    /\ rssPc = "loop"
    /\ rssNet \in UNION {[1..(1 + a) -> FeedResponses] : a \in 0..MaxAlt}
    /\ FetchIdle
    /\ InitIdle

NextRss == RssTry \/ RssExhausted \/ RssBuild

SpecRss == InitRss /\ [][NextRss]_vars

----------------------------------------------------------------------------
(* fetch_source on its own: the three fetch strategies, lines 282-422 *)

(* Raw titles, summaries and contents are given as _clean leaves them.     *)

(* Lines 298-313: the feed strategy makes one item of every entry. *)
RssItems(source, ents) ==
    [i \in DOMAIN ents |->
        [category |-> source.category,
         title |-> ents[i].title,
         summary |-> _truncate(ents[i].summary, SUMMARY_CAP),
         source |-> source.name,
         link |-> ents[i].link,
         time |-> ents[i].published,
         pos |-> i, kw |-> ents[i].kw, dt |-> Unset]]

(* Lines 325-329: the selected articles, or else the links with a text. *)
ScrapeArticles(response) ==
    LET articles == FirstN(response.entries, MAX_ITEMS_PER_SOURCE)
    IN IF articles # <<>>
       THEN articles
       ELSE FirstN(response.anchors, MAX_ITEMS_PER_SOURCE)

(* Lines 336-337 and 391-392: an entry without a title is skipped. *)
HasTitle(title) == title.len # 0

(* Lines 331-366: the scrape strategy. *)
_fetch_scrape(source, response) ==
    LET kept == SelectSeq(ScrapeArticles(response), LAMBDA art : HasTitle(art.title))
    IN [i \in DOMAIN kept |->
           [category |-> source.category,
            title |-> _truncate(kept[i].title, TITLE_CAP),
            summary |-> _truncate(kept[i].summary, SUMMARY_CAP),
            source |-> source.name,
            link |-> kept[i].link,
            time |-> kept[i].time,
            pos |-> i, kw |-> kept[i].kw, dt |-> Unset]]

(* Line 390: depth_title or title or content[:60]. *)
display_title(item) ==
    IF item.depth_title.len # 0
    THEN item.depth_title
    ELSE IF item.title.len # 0
         THEN item.title
         ELSE [len |-> IF item.content.len < TITLE_FROM_CONTENT
                       THEN item.content.len
                       ELSE TITLE_FROM_CONTENT]

(* Line 394: content = display_title.  A title taken from the content is    *)
(* the whole content when the content has at most 60 characters; item.dup  *)
(* says whether a title of the entry's own has the text of the content.    *)
ContentIsTitle(item) ==
    IF item.depth_title.len = 0 /\ item.title.len = 0
    THEN item.content.len <= TITLE_FROM_CONTENT
    ELSE item.dup

(* Line 388: the epoch time as a local wall-clock string without offset. *)
pub_time(ctime, offset) == IF ctime # 0 THEN Naive(ctime + offset) ELSE NoTime

(* Lines 376-404: the API strategy. *)
_fetch_cls_api(source, response, offset) ==
    LET kept == SelectSeq(response.entries, LAMBDA item : HasTitle(display_title(item)))
    IN [i \in DOMAIN kept |->
           [category |-> source.category,
            title |-> _truncate(display_title(kept[i]), TITLE_CAP),
            summary |-> IF ~ContentIsTitle(kept[i])
                        THEN _truncate(kept[i].content, SUMMARY_CAP)
                        ELSE EmptyText,
            source |-> source.name,
            link |-> kept[i].shareurl,
            time |-> pub_time(kept[i].ctime, offset),
            pos |-> i, kw |-> kept[i].kw, dt |-> Unset]]

(* Lines 412-417: what the fetcher that source.method selects does.  The   *)
(* feed strategy swallows the failure of its URLs and goes on with no      *)
(* entries; the other two let the failure of their request escape.         *)
Fetcher(source, response, offset) ==
    CASE source.method = "rss" ->
            Ok(RssItems(source, IF response.fails
                                THEN <<>>
                                ELSE FirstN(response.entries, MAX_ITEMS_PER_SOURCE)))
      [] source.method = "cls_api" ->
            IF response.fails THEN Raises
            ELSE Ok(_fetch_cls_api(source, response, offset))
      [] OTHER ->
            IF response.fails THEN Raises
            ELSE Ok(_fetch_scrape(source, response))

(* One call of fetch_source, lines 409-422. *)
FetchSource ==
    /\ fetchPc = "call"
    /\ LET r == fetch_source(fetchArg, Fetcher(fetchArg, raw, tz))
       IN fetched' = r.items /\ raised' = r.exc
    /\ fetchPc' = "done"
    /\ UNCHANGED <<fetchArg, raw, tz>>
    /\ UNCHANGED pipeVars
    /\ UNCHANGED trVars
    /\ UNCHANGED rssVars
    /\ UNCHANGED ogVars

(* The configured sources, one of each method (lines 62-154). *)
FetchConfigs ==
    {SOURCES[1], SOURCES[2],
     [name |-> "OilGasPress", category |-> "general", method |-> "scrape"]}

(* The local UTC offsets the process may run under. *)
Offsets == {-300, 0, 480}

RawLists(Profiles) == UNION {[1..n -> Profiles] : n \in 0..MaxRaw}

RssEntries ==
    { [title |-> [len |-> 0], summary |-> Text(300, FALSE, FALSE), link |-> "u",
       published |-> Recent, kw |-> TRUE],
      [title |-> [len |-> 40], summary |-> Text(500, FALSE, FALSE), link |-> "u",
       published |-> Recent, kw |-> TRUE],
      [title |-> [len |-> 120], summary |-> Text(600, FALSE, FALSE), link |-> "u",
       published |-> NoTime, kw |-> TRUE],
      [title |-> [len |-> 80], summary |-> EmptyText, link |-> "",
       published |-> Recent, kw |-> FALSE] }

ScrapeEntries ==
    { [title |-> [len |-> 0], summary |-> Text(300, FALSE, FALSE), link |-> "",
       time |-> NoTime, kw |-> TRUE],
      [title |-> [len |-> 80], summary |-> Text(500, FALSE, FALSE), link |-> "u",
       time |-> Recent, kw |-> TRUE],
      [title |-> [len |-> 81], summary |-> EmptyText, link |-> "u",
       time |-> Garbage, kw |-> TRUE],
      [title |-> [len |-> 120], summary |-> Text(600, FALSE, FALSE), link |-> "u",
       time |-> NoTime, kw |-> FALSE] }

ScrapeAnchors ==
    { <<>>,
      << [title |-> [len |-> 100], summary |-> EmptyText, link |-> "u",
          time |-> NoTime, kw |-> TRUE] >> }

ClsEntry(content, title, depth, dup, ctime) ==
    [content |-> content, title |-> [len |-> title], depth_title |-> [len |-> depth],
     dup |-> dup, shareurl |-> "u", ctime |-> ctime, kw |-> TRUE]

ClsEntries ==
    { ClsEntry(EmptyText, 0, 0, FALSE, Clock0 - Day),
      ClsEntry(Text(50, TRUE, FALSE), 0, 0, FALSE, Clock0 - Day),
      ClsEntry(Text(300, TRUE, FALSE), 0, 0, FALSE, 0),
      ClsEntry(Text(600, TRUE, FALSE), 90, 0, FALSE, Clock0 - TwoWeeks),
      ClsEntry(Text(40, TRUE, FALSE), 40, 0, TRUE, Clock0 - Day),
      ClsEntry(Text(300, TRUE, FALSE), 40, 30, FALSE, Clock0 - Day) }

Failed == [fails |-> TRUE, entries |-> <<>>, anchors |-> <<>>]

RawResponses(Profiles, Anchors) ==
    {Failed} \cup {[fails |-> FALSE, entries |-> l, anchors |-> a] :
                      l \in RawLists(Profiles), a \in Anchors}

InitFetch ==
    /\ pc = "idle"
    /\ net = [s \in SourceNames |-> Ok(<<>>)]
    /\ filtered = <<>>
    /\ RssIdle
    /\ InitIdle
    /\ OgIdle
    /\ fetchPc = "call"
    /\ fetched = <<>>
    /\ tz \in Offsets
    /\ fetchArg \in FetchConfigs
    /\ \/ fetchArg.method = "rss" /\ raw \in RawResponses(RssEntries, {<<>>})
       \/ fetchArg.method = "scrape" /\ raw \in RawResponses(ScrapeEntries, ScrapeAnchors)
       \/ fetchArg.method = "cls_api" /\ raw \in RawResponses(ClsEntries, {<<>>})

NextFetch == FetchSource

SpecFetch == InitFetch /\ [][NextFetch]_vars

----------------------------------------------------------------------------
(* _fetch_og_description on its own, lines 190-264 *)

(* A description tag is given by whether it is there with a non-blank      *)
(* content, the length of its cleaned content and whether the content      *)
(* holds one of the two placeholder phrases; a paragraph or a snippet by   *)
(* the length of its cleaned text and the same flag.                       *)

(* Lines 205-207 and 214-216: a description that is taken. *)
AcceptedFrom30(d) == d.present /\ ~d.placeholder /\ d.len >= META_ABOVE

Accepted(d) == d.present /\ ~d.placeholder /\ d.len > META_ABOVE

(* Lines 222-228 and 253-259: the texts longer than 40 characters, up to   *)
(* the one that brings the total to 400; the paragraphs of the page are    *)
(* also screened for the placeholder phrases, the snippets are not.        *)
Qualifies(text, screened) ==
    text.len > PARA_ABOVE /\ (screened => ~text.placeholder)

RECURSIVE Gather(_, _, _, _)
Gather(texts, i, got, screened) ==
    IF i > Len(texts)
    THEN got
    ELSE IF Qualifies(texts[i], screened)
         THEN IF SeqSum(Append(got, texts[i].len)) >= PARAS_ENOUGH
              THEN Append(got, texts[i].len)
              ELSE Gather(texts, i + 1, Append(got, texts[i].len), screened)
         ELSE Gather(texts, i + 1, got, screened)

(* " ".join(...): the lengths and one blank between neighbours. *)
JoinedLen(lens) == SeqSum(lens) + Len(lens) - 1

Returned(n, tier, queried) == [len |-> n, tier |-> tier, queried |-> queried]

(* Lines 243-264. *)
_fetch_ddg_snippet(answer) ==
    IF answer.fails
    THEN Returned(0, "none", TRUE)
    ELSE LET snippets == Gather(answer.snippets, 1, <<>>, FALSE)
         IN IF snippets # <<>>
            THEN Returned(JoinedLen(snippets), "ddg", TRUE)
            ELSE Returned(0, "none", TRUE)

(* Lines 190-240.  best_meta is the description kept as a fallback         *)
(* (best.len = 0 for the empty string).                                    *)
_fetch_og_description(article, answer) ==
    IF article.fails
    THEN _fetch_ddg_snippet(answer)
    ELSE IF Accepted(article.og) /\ article.og.len >= META_ENOUGH
    THEN Returned(article.og.len, "og", FALSE)
    ELSE LET og_kept == Accepted(article.og)
         IN IF ~og_kept /\ Accepted(article.meta) /\ article.meta.len >= META_ENOUGH
            THEN Returned(article.meta.len, "meta", FALSE)
            ELSE LET best == IF og_kept
                             THEN [len |-> article.og.len, tier |-> "og"]
                             ELSE IF Accepted(article.meta)
                                  THEN [len |-> article.meta.len, tier |-> "meta"]
                                  ELSE [len |-> 0, tier |-> "none"]
                     paragraphs == Gather(article.paragraphs, 1, <<>>, TRUE)
                 IN IF paragraphs # <<>> /\ JoinedLen(paragraphs) > best.len
                    THEN Returned(JoinedLen(paragraphs), "paragraphs", FALSE)
                    ELSE IF best.len # 0
                         THEN Returned(best.len, best.tier, FALSE)
                         ELSE _fetch_ddg_snippet(answer)

(* One call of _fetch_og_description. *)
FetchOg ==
    /\ ogPc = "call"
    /\ ogResult' = _fetch_og_description(page, search)
    /\ ogPc' = "done"
    /\ UNCHANGED <<page, search, raised>>
    /\ UNCHANGED pipeVars
    /\ UNCHANGED trVars
    /\ UNCHANGED rssVars
    /\ UNCHANGED fetchVars

Meta(n, placeholder) == [present |-> TRUE, len |-> n, placeholder |-> placeholder]
Para(n, placeholder) == [len |-> n, placeholder |-> placeholder]

OgTags == {NoMeta, Meta(30, FALSE), Meta(31, FALSE), Meta(100, FALSE),
           Meta(150, FALSE), Meta(200, TRUE)}
MetaTags == {NoMeta, Meta(30, FALSE), Meta(100, FALSE), Meta(200, FALSE),
             Meta(200, TRUE)}
Paras == {Para(40, FALSE), Para(41, FALSE), Para(100, FALSE), Para(200, FALSE),
          Para(300, TRUE)}
ParaLists == UNION {[1..n -> Paras] : n \in 0..MaxParas}

Pages ==
    {[fails |-> TRUE, og |-> NoMeta, meta |-> NoMeta, paragraphs |-> <<>>]}
        \cup {[fails |-> FALSE, og |-> o, meta |-> m, paragraphs |-> ps] :
                 o \in OgTags, m \in MetaTags, ps \in ParaLists}

Searches ==
    {[fails |-> TRUE, snippets |-> <<>>]}
        \cup {[fails |-> FALSE, snippets |-> sn] :
                 sn \in {<<>>, <<Para(40, FALSE)>>, <<Para(41, TRUE)>>,
                         <<Para(250, FALSE), Para(250, FALSE), Para(100, FALSE)>>}}

InitOg ==
    /\ pc = "idle"
    /\ net = [s \in SourceNames |-> Ok(<<>>)]
    /\ filtered = <<>>
    /\ RssIdle
    /\ InitIdle
    /\ fetchPc = "idle"
    /\ fetchArg = SOURCES[1]
    /\ raw = [fails |-> FALSE, entries |-> <<>>, anchors |-> <<>>]
    /\ tz = 0
    /\ fetched = <<>>
    /\ ogPc = "call"
    /\ page \in Pages
    /\ search \in Searches
    /\ ogResult = [len |-> 0, tier |-> "none", queried |-> FALSE]

NextOg == FetchOg

SpecOg == InitOg /\ [][NextOg]_vars

----------------------------------------------------------------------------
(* Properties *)

Range(f) == {f[i] : i \in DOMAIN f}
Min(a, b) == IF a < b THEN a ELSE b
CountOf(items, src) == Cardinality({i \in DOMAIN items : items[i].source = src})
Pick(items, idxs) == [k \in DOMAIN idxs |-> items[idxs[k]]]
Present(it) ==
    \E j \in DOMAIN filtered : filtered[j].source = it.source /\ filtered[j].pos = it.pos

(* The merged items that pass the relevance filter, in arrival order. *)
Matched == SelectSeq(all_news, LAMBDA n : n.kw)
RankInSource(items, i) ==
    Cardinality({j \in 1..i : items[j].source = items[i].source})
AfterCap == pc \notin {"start", "fetch", "cap", "raised"}

(* C1: once the cap has run, the capped collection is the filtered         *)
(* sequence restricted to the items that are among the first 5 of their    *)
(* source, in the original order: for every source with k filtered items   *)
(* it holds exactly the first min(k, 5) of them and never a 6th.           *)
C1_PerSourceCap ==
    AfterCap =>
        /\ limited0 =
              Pick(Matched,
                   Ascending({i \in DOMAIN Matched : RankInSource(Matched, i) <= 5},
                             1, Len(Matched)))
        /\ \A s \in SourceNames :
              CountOf(limited0, s) = Min(CountOf(Matched, s), 5)

C1_Witness ==
    /\ AfterCap
    /\ CountOf(Matched, "CLS") = 8
    /\ CountOf(limited0, "CLS") = 5
    /\ CountOf(limited0, "CNBC") = 2
    /\ Len(all_news) = 10

(* C2: in the returned list an item of the capped collection is absent     *)
(* exactly when its resolved time is known and strictly older than         *)
(* now - 2 weeks; an item at the cutoff or at now - 13 days is kept, one   *)
(* at now - 15 days is dropped, one without a resolved time is kept.       *)
C2_FreshnessCutoff ==
    pc = "done" =>
        \A i \in DOMAIN limited0 :
            LET it == limited0[i]
                rt == _parse_time(it.time)
            IN /\ (~Present(it)) <=> (rt.st = "known" /\ rt.t < now - 14 * Day)
               /\ it.time.kind \in {"empty", "garbage"} => Present(it)
               /\ it.time = Naive(now - 14 * Day) => Present(it)
               /\ it.time = Naive(now - 13 * Day) => Present(it)
               /\ it.time = Naive(now - 15 * Day) => ~Present(it)

C2_Witness ==
    /\ pc = "done"
    /\ \E i, j, k \in DOMAIN limited0 :
          /\ limited0[i].time = Naive(now - 14 * Day)
          /\ limited0[j].time = Naive(now - 15 * Day)
          /\ limited0[k].time = NoTime
    /\ Len(filtered) = Len(limited0) - 1

(* C3: in the returned list every item with a known resolved time precedes *)
(* every item without one, and the known times never increase from front   *)
(* to back.                                                                *)
C3_SortOrder ==
    pc = "done" =>
        \A i, j \in DOMAIN filtered :
            i < j =>
                /\ filtered[i].dt.st = "none" => filtered[j].dt.st = "none"
                /\ (filtered[i].dt.st = "known" /\ filtered[j].dt.st = "known")
                      => filtered[i].dt.t >= filtered[j].dt.t

C3_Witness ==
    /\ pc = "done"
    /\ Len(filtered) >= 3
    /\ limited0[1].time = NoTime
    /\ limited0[2].time = Naive(Clock0 - 13 * Day)
    /\ limited0[3].time = Aware(Clock0 - Day + 480, 480)
    /\ filtered[1].dt.st = "known"
    /\ filtered[2].dt.st = "known"
    /\ filtered[1].dt.t > filtered[2].dt.t
    /\ filtered[Len(filtered)].dt.st = "none"

AllRaise == \A s \in SourceNames : net[s].raises

(* C4: no exception leaves fetch_source: a source whose fetch fails        *)
(* contributes an empty list, the results of the sources that did not fail *)
(* are all collected, and when every source fails fetch_all is never stuck *)
(* before it returns and returns the empty list.                           *)
C4_FetchNeverRaises ==
    /\ ~raised
    /\ pc # "raised"
    /\ \A s \in SourceNames :
          futures[s].st \in {"done", "consumed"} =>
              /\ ~futures[s].exc
              /\ net[s].raises => futures[s].items = <<>>
    /\ pc \notin {"start", "fetch"} =>
          \A s \in SourceNames :
              SelectSeq(all_news, LAMBDA n : n.source = s) =
                  (IF net[s].raises THEN <<>> ELSE net[s].items)
    /\ (AllRaise /\ pc # "done") => ENABLED Next
    /\ (AllRaise /\ pc = "done") => filtered = <<>>

C4_Witness ==
    /\ pc = "done"
    /\ net["CNBC"].raises
    /\ ~net["CLS"].raises
    /\ Len(filtered) = 1
    /\ filtered[1].source = "CLS"

Yields(j) == ~rssNet[j].fails /\ rssNet[j].n >= 1
FirstYielding == CHOOSE j \in DOMAIN rssNet : Yields(j) /\ \A i \in 1..(j - 1) : ~Yields(i)

(* C5: the candidate URLs are attempted in the order primary, alt_urls[0], *)
(* alt_urls[1], ...; a candidate is attempted only when every earlier one  *)
(* failed or parsed to zero entries; the walk ends at the first candidate  *)
(* that yields entries and the returned items are that candidate's (none   *)
(* when no candidate yields).                                              *)
C5_FeedFallbackWalk ==
    /\ \A i \in DOMAIN rssAttempted : rssAttempted[i] = i
    /\ \A i \in DOMAIN rssAttempted : i < Len(rssAttempted) => ~Yields(i)
    /\ rssPc = "done" =>
          IF \E j \in DOMAIN rssNet : Yields(j)
          THEN /\ Len(rssAttempted) = FirstYielding
               /\ Len(rssResults) = Min(rssNet[FirstYielding].n, 5)
               /\ \A i \in DOMAIN rssResults :
                     rssResults[i].url = FirstYielding /\ rssResults[i].k = i
          ELSE /\ Len(rssAttempted) = Len(rssNet)
               /\ rssResults = <<>>

C5_Witness ==
    /\ rssPc = "done"
    /\ Len(rssNet) = 3
    /\ rssNet[1].fails
    /\ ~rssNet[2].fails
    /\ rssNet[2].n = 0
    /\ Yields(3)
    /\ rssAttempted = <<1, 2, 3>>
    /\ Len(rssResults) >= 1

Candidates ==
    Ascending({i \in DOMAIN items0 :
                  items0[i].summary.len > 0 /\ ~items0[i].summary.zh},
              1, Len(items0))

RECURSIVE Flatten(_)
Flatten(ss) == IF ss = <<>> THEN <<>> ELSE Head(ss) \o Flatten(Tail(ss))

BatchesInOrder ==
    /\ \A c \in DOMAIN calls :
          /\ calls[c].indices # <<>>
          /\ \A k \in DOMAIN calls[c].indices :
                calls[c].lens[k] = items0[calls[c].indices[k]].summary.len
    /\ pc = "parse" =>
          Flatten([c \in DOMAIN calls |-> calls[c].indices]) = Candidates

(* C6 as stated: every batch handed to the translation call has at most    *)
(* 4500 characters in total, and the batches, in call order, hold each     *)
(* candidate whole and once, in input order.                               *)
C6_AsStated ==
    /\ \A c \in DOMAIN calls : SeqSum(calls[c].lens) <= 4500
    /\ BatchesInOrder

(* C6 as amended: a batch of two or more summaries has at most 4500        *)
(* characters in total, and a batch exceeds 4500 characters only when it   *)
(* is a single summary that is itself longer than 4500; the batches, in    *)
(* call order, hold each candidate whole and once, in input order, and     *)
(* lengths 4000, 1000, 3000 give the batches [4000] and [1000, 3000].      *)
C6_TranslationBatching ==
    /\ \A c \in DOMAIN calls :
          \/ SeqSum(calls[c].lens) <= 4500
          \/ Len(calls[c].lens) = 1 /\ calls[c].lens[1] > 4500
    /\ BatchesInOrder
    /\ (pc = "parse" /\ Len(items0) = 3 /\ Candidates = <<1, 2, 3>>
           /\ items0[1].summary.len = 4000 /\ items0[2].summary.len = 1000
           /\ items0[3].summary.len = 3000)
          => [c \in DOMAIN calls |-> calls[c].indices] = << <<1>>, <<2, 3>> >>

C6_Witness ==
    /\ pc = "parse"
    /\ Len(calls) = 2
    /\ calls[1].lens = <<4000>>
    /\ calls[2].lens = <<1000, 3000>>

Translated(old, r) ==
    IF r.len > 10
    THEN [old EXCEPT !.summary = IF r.len > 500 THEN [r EXCEPT !.len = 501] ELSE r]
    ELSE old

(* C7: no exception leaves _translate_summaries; no item is submitted in   *)
(* two batches; the items of a batch whose call raised keep their          *)
(* summaries, the items of every other batch are updated from their own    *)
(* call's results, whatever happened to the other batches, and every       *)
(* candidate has been submitted when the function returns.                 *)
C7_PartialBatchFailure ==
    /\ ~raised
    /\ pc # "raised"
    /\ \A c, d \in DOMAIN calls :
          c # d => Range(calls[c].indices) \cap Range(calls[d].indices) = {}
    /\ pc \in {"tr_loop", "parse"} =>
          /\ \A c \in DOMAIN calls :
                \A k \in DOMAIN calls[c].indices :
                    LET i == calls[c].indices[k]
                    IN filtered[i] = IF calls[c].failed
                                     THEN items0[i]
                                     ELSE Translated(items0[i], calls[c].results[k])
          /\ \A i \in DOMAIN filtered :
                (\A c \in DOMAIN calls : i \notin Range(calls[c].indices))
                    => filtered[i] = items0[i]
    /\ pc = "parse" =>
          \A k \in DOMAIN Candidates :
              \E c \in DOMAIN calls : Candidates[k] \in Range(calls[c].indices)

C7_Witness ==
    /\ pc = "parse"
    /\ Len(calls) = 2
    /\ calls[1].failed
    /\ ~calls[2].failed
    /\ Len(calls[1].indices) = 2
    /\ filtered[calls[1].indices[1]] = items0[calls[1].indices[1]]
    /\ filtered[calls[2].indices[1]] # items0[calls[2].indices[1]]

AfterSelect == pc \notin {"start", "fetch", "cap", "select", "raised"}
Submitted(i) ==
    \E k \in DOMAIN need_enrich : need_enrich[k] = i /\ future_map[k].submits = 1
Useless(n) == n.summary.len < 150 \/ n.title.len = 0 \/ n.summary.echo

(* C8 as stated: an enrichment task is submitted for an item of the capped *)
(* collection exactly when its summary is useless (empty, shorter than 150 *)
(* characters, or echoing the title).                                      *)
C8_AsStated ==
    AfterSelect => \A i \in DOMAIN limited0 : Submitted(i) <=> Useless(limited0[i])

(* C8 as amended: an enrichment task is submitted for an item of the       *)
(* capped collection exactly when its summary is useless and its link is   *)
(* not empty, and for no item twice; none is submitted for an item whose   *)
(* summary has 150 characters or more and does not echo the title.         *)
C8_EnrichmentSelection ==
    AfterSelect =>
        /\ \A i \in DOMAIN limited0 :
              Submitted(i) <=> (Useless(limited0[i]) /\ limited0[i].link # "")
        /\ \A k, l \in DOMAIN need_enrich : need_enrich[k] = need_enrich[l] => k = l
        /\ Len(future_map) = Len(need_enrich)

C8_Witness ==
    /\ pc = "enrich"
    /\ \E i, j \in DOMAIN limited0 :
          /\ Submitted(i)
          /\ limited0[i].summary.len >= 150
          /\ limited0[i].summary.echo
          /\ ~Submitted(j)
          /\ limited0[j].summary.len = 100
          /\ limited0[j].link = ""
    /\ \E i \in DOMAIN limited0 :
          ~Submitted(i) /\ limited0[i].summary.len >= 150 /\ limited0[i].link # ""

(* C9: while the enrichment stage runs and when it is over, an item whose  *)
(* enrichment result has been taken has the result (cut to the summary     *)
(* cap) as its summary if the result is strictly longer than the summary   *)
(* it had, and the summary it had otherwise; its other fields, and every   *)
(* item whose result has not been taken or that was not selected, are as   *)
(* the cap left them.                                                      *)
C9_EnrichmentUpdate ==
    pc \in {"enrich", "translate"} =>
        /\ Len(filtered) = Len(limited0)
        /\ \A i \in DOMAIN filtered :
              LET old == limited0[i]
                  taken == {k \in DOMAIN need_enrich :
                               need_enrich[k] = i /\ future_map[k].st = "consumed"}
              IN /\ [filtered[i] EXCEPT !.summary = old.summary] = old
                 /\ taken = {} => filtered[i].summary = old.summary
                 /\ \A k \in taken :
                       LET d == future_map[k].desc
                       IN IF d.len > old.summary.len
                          THEN /\ filtered[i].summary.len = Min(d.len, 501)
                               /\ filtered[i].summary # old.summary
                          ELSE filtered[i].summary = old.summary

C9_Witness ==
    /\ pc = "translate"
    /\ \E k, l \in DOMAIN need_enrich :
          /\ future_map[k].desc.len > limited0[need_enrich[k]].summary.len
          /\ filtered[need_enrich[k]].summary.len = 501
          /\ future_map[l].desc.len = limited0[need_enrich[l]].summary.len
          /\ future_map[l].desc.len > 0
          /\ filtered[need_enrich[l]].summary = limited0[need_enrich[l]].summary

StageOrder ==
    <<"fetch", "filter", "cap", "enrich", "translate", "parse", "cutoff", "sort">>
StageNo(x) == CHOOSE i \in DOMAIN StageOrder : StageOrder[i] = x

(* C10: the stages start in the order fetch, filter, cap, enrichment,      *)
(* translation, time parsing, cutoff, sort (enrichment only when an item   *)
(* needs it); the filter starts only when every fetch result has been      *)
(* taken and translation only when every enrichment result has been taken; *)
(* no task is submitted twice, no result is taken twice, and when          *)
(* fetch_all returns every submitted task's result has been taken once.    *)
C10_StageBarrier ==
    /\ \A i, j \in DOMAIN stages :
          i < j => StageNo(stages[i]) < StageNo(stages[j])
    /\ "filter" \in Range(stages) =>
          \A s \in SourceNames : futures[s].st = "consumed"
    /\ "translate" \in Range(stages) =>
          \A k \in DOMAIN future_map : future_map[k].st = "consumed"
    /\ \A s \in SourceNames :
          futures[s].submits <= 1 /\ futures[s].consumed <= futures[s].submits
    /\ \A k \in DOMAIN future_map :
          future_map[k].submits <= 1 /\ future_map[k].consumed <= future_map[k].submits
    /\ pc = "done" =>
          /\ \A s \in SourceNames :
                futures[s].submits = 1 /\ futures[s].consumed = 1
          /\ \A k \in DOMAIN future_map : future_map[k].consumed = 1
          /\ SelectSeq(stages, LAMBDA x : x # "enrich")
                = SelectSeq(StageOrder, LAMBDA x : x # "enrich")

C10_Witness ==
    /\ pc = "done"
    /\ stages = StageOrder
    /\ Len(future_map) = 2
    /\ \A s \in SourceNames : futures[s].items # <<>>

Enriched(old, d) ==
    IF d.len > old.len THEN [d EXCEPT !.len = Min(d.len, 501)] ELSE old

(* C11: a step in which a fetch or enrichment worker completes its task    *)
(* changes neither the merged list nor any item; the merged list grows     *)
(* only in a step in which the orchestrator takes a fetch result, and by   *)
(* that result; during the enrichment stage an item changes only in the    *)
(* step in which the orchestrator takes the result of that item's own      *)
(* task, which happens once per task, no item having two tasks; and, in    *)
(* whatever order the tasks completed, after the stage every item's        *)
(* summary is the one determined by its summary before the stage and its   *)
(* own task's result.                                                      *)
C11_NoSharedWrites ==
    /\ [](\A k, l \in DOMAIN need_enrich : need_enrich[k] = need_enrich[l] => k = l)
    /\ [](pc = "translate" =>
             \A i \in DOMAIN filtered :
                 LET ks == {k \in DOMAIN need_enrich : need_enrich[k] = i}
                 IN IF ks = {}
                    THEN filtered[i] = limited0[i]
                    ELSE \A k \in ks :
                            filtered[i].summary =
                                Enriched(limited0[i].summary, future_map[k].desc))
    /\ [][/\ (\E s \in SourceNames :
                  futures[s].st = "running" /\ futures'[s].st = "done")
              => UNCHANGED <<all_news, filtered>>
          /\ (\E k \in DOMAIN future_map :
                  /\ k \in DOMAIN future_map'
                  /\ future_map[k].st = "running"
                  /\ future_map'[k].st = "done")
              => UNCHANGED <<all_news, filtered>>
          /\ all_news' # all_news =>
                \E s \in SourceNames :
                    /\ futures[s].st = "done"
                    /\ futures'[s].st = "consumed"
                    /\ all_news' = all_news \o futures[s].items
          /\ (pc = "enrich" /\ filtered' # filtered) =>
                \E k \in DOMAIN future_map :
                    /\ future_map[k].st = "done"
                    /\ future_map[k].consumed = 0
                    /\ future_map'[k].st = "consumed"
                    /\ Len(filtered') = Len(filtered)
                    /\ \A i \in DOMAIN filtered :
                          i # need_enrich[k] => filtered'[i] = filtered[i]
         ]_vars

(* The second task's result has been taken and applied while the first     *)
(* task is still running.                                                  *)
C11_Witness ==
    /\ pc = "enrich"
    /\ Len(need_enrich) = 2
    /\ future_map[1].st = "running"
    /\ future_map[2].st = "consumed"
    /\ filtered[need_enrich[2]].summary # limited0[need_enrich[2]].summary
    /\ filtered[need_enrich[1]] = limited0[need_enrich[1]]

(* C12 as stated: every item a fetch strategy produces has a non-empty     *)
(* title, a raw entry from which no title can be derived being dropped.    *)
C12_AsStated ==
    fetchPc = "done" => \A i \in DOMAIN fetched : fetched[i].title.len > 0

(* C13 as stated: every item a fetch strategy produces, and every item of  *)
(* the merged and of the working collection at every later stage, has a    *)
(* title of at most 80 and a summary of at most 500 characters.            *)
C13_AsStated ==
    /\ fetchPc = "done" =>
          \A i \in DOMAIN fetched :
              fetched[i].title.len <= 80 /\ fetched[i].summary.len <= 500
    /\ \A i \in DOMAIN all_news :
          all_news[i].title.len <= 80 /\ all_news[i].summary.len <= 500
    /\ \A i \in DOMAIN filtered :
          filtered[i].title.len <= 80 /\ filtered[i].summary.len <= 500

Max(a, b) == IF a > b THEN a ELSE b
Lens(texts) == [k \in DOMAIN texts |-> texts[k].len]
PrefSum(lens, m) == SeqSum(SubSeq(lens, 1, m))
(* The length of the texts joined by blanks when they are taken from the   *)
(* front until their lengths total 400 or there are no more (0 for none).  *)
AssembledLen(lens) ==
    LET m == CHOOSE m \in 0..Len(lens) :
                 /\ m = Len(lens) \/ PrefSum(lens, m) >= 400
                 /\ \A j \in 0..(m - 1) : PrefSum(lens, j) < 400
    IN IF m = 0 THEN 0 ELSE PrefSum(lens, m) + m - 1
ParaLen ==
    AssembledLen(Lens(SelectSeq(page.paragraphs,
                                LAMBDA t : t.len > 40 /\ ~t.placeholder)))
SnippetLen == AssembledLen(Lens(SelectSeq(search.snippets, LAMBDA t : t.len > 40)))
SearchEmpty == search.fails \/ SnippetLen = 0
Taken(d, least) == d.present /\ ~d.placeholder /\ d.len >= least

(* C14 as stated: an og description is accepted unless it holds a          *)
(* placeholder phrase or is shorter than 30 characters and, accepted with  *)
(* 150 characters or more, is returned at once; otherwise the result is    *)
(* the longer of the assembled paragraphs and the short accepted meta      *)
(* fallback; the search is queried only when neither exists or the page    *)
(* fetch fails; the result is empty only when every tier fails; nothing is *)
(* raised.                                                                 *)
C14_AsStated ==
    ogPc = "done" =>
        LET ogNow == ~page.fails /\ Taken(page.og, 30) /\ page.og.len >= 150
            fb == IF Taken(page.og, 30) /\ page.og.len < 150
                  THEN page.og.len
                  ELSE IF Taken(page.meta, 30) /\ page.meta.len < 150
                       THEN page.meta.len
                       ELSE 0
        IN /\ ~raised
           /\ ogNow => (ogResult.len = page.og.len /\ ~ogResult.queried)
           /\ (~page.fails /\ ~ogNow /\ (ParaLen > 0 \/ fb > 0)) =>
                 (ogResult.len = Max(ParaLen, fb) /\ ~ogResult.queried)
           /\ ogResult.queried => (page.fails \/ (ParaLen = 0 /\ fb = 0))
           /\ ogResult.len = 0 => (ogResult.queried /\ SearchEmpty)

(* C14 as amended: an og description is accepted unless it holds a         *)
(* placeholder phrase or has 30 characters or fewer and, accepted with 150 *)
(* characters or more, is returned at once; when no og description is      *)
(* accepted the generic description is tried under the same rule and is    *)
(* likewise returned at once with 150 characters or more; otherwise the    *)
(* result is the assembled paragraphs when they are strictly longer than   *)
(* the short accepted description, else that description; the search is    *)
(* queried exactly when the page fetch fails or neither exists, and then   *)
(* its assembled snippets are the result; the result is empty only when    *)
(* every tier fails; nothing is raised.                                    *)
C14_EnricherTiers ==
    ogPc = "done" =>
        LET ogOk == Taken(page.og, 31)
            metaOk == ~ogOk /\ Taken(page.meta, 31)
            ogNow == ~page.fails /\ ogOk /\ page.og.len >= 150
            metaNow == ~page.fails /\ metaOk /\ page.meta.len >= 150
            fb == IF ogOk THEN page.og.len ELSE IF metaOk THEN page.meta.len ELSE 0
        IN /\ ~raised
           /\ ogNow => ogResult = [len |-> page.og.len, tier |-> "og", queried |-> FALSE]
           /\ metaNow =>
                 ogResult = [len |-> page.meta.len, tier |-> "meta", queried |-> FALSE]
           /\ (~page.fails /\ ~ogNow /\ ~metaNow) =>
                 IF ParaLen > fb
                 THEN ogResult = [len |-> ParaLen, tier |-> "paragraphs",
                                  queried |-> FALSE]
                 ELSE IF fb > 0
                      THEN /\ ogResult.len = fb
                           /\ ogResult.tier = (IF ogOk THEN "og" ELSE "meta")
                           /\ ~ogResult.queried
                      ELSE ogResult.queried
           /\ ogResult.queried <=>
                 (page.fails \/ (~ogNow /\ ~metaNow /\ ParaLen = 0 /\ fb = 0))
           /\ ogResult.queried =>
                 ogResult.len = (IF search.fails THEN 0 ELSE SnippetLen)
           /\ ogResult.len = 0 => (ogResult.queried /\ SearchEmpty)

(* An og description of exactly 30 characters is passed over, and the      *)
(* generic description of 200 is returned although the page has longer     *)
(* paragraphs.                                                             *)
C14_Witness ==
    /\ ogPc = "done"
    /\ page.og = Meta(30, FALSE)
    /\ page.meta = Meta(200, FALSE)
    /\ ParaLen > 400
    /\ ogResult = [len |-> 200, tier |-> "meta", queried |-> FALSE]

Results(s) == IF net[s].raises THEN <<>> ELSE net[s].items
Ids(items) == [k \in DOMAIN items |-> <<items[k].source, items[k].pos>>]
FromSource(items, s) == SelectSeq(items, LAMBDA n : n.source = s)
(* What the filter and the cap keep of a source's own result, in its order. *)
CappedOf(s) == FirstN(SelectSeq(Results(s), LAMBDA n : n.kw), 5)
(* What the cutoff then keeps of it. *)
KeptOf(s) ==
    SelectSeq(CappedOf(s),
              LAMBDA n : LET rt == _parse_time(n.time)
                         IN rt.st = "none" \/ rt.t >= now - TwoWeeks)

(* C15: with fixed per-source fetch results, in whatever order the fetch   *)
(* tasks complete, the items of each source in the capped collection are   *)
(* the first 5 matching items of that source's own result, in that         *)
(* result's order, and stay so up to the cutoff; the items of the returned *)
(* list are, source by source, those of them that are fresh.  Hence the    *)
(* retained set depends on the results only, never on the arrival order.   *)
C15_OrderIndependence ==
    /\ AfterCap =>
          \A s \in SourceNames : FromSource(limited0, s) = CappedOf(s)
    /\ pc \in {"select", "enrich", "translate", "tr_loop", "parse"} =>
          \A s \in SourceNames : Ids(FromSource(filtered, s)) = Ids(CappedOf(s))
    /\ pc = "done" =>
          /\ Range(Ids(filtered)) = UNION {Range(Ids(KeptOf(s))) : s \in SourceNames}
          /\ \A i, j \in DOMAIN filtered :
                Ids(filtered)[i] = Ids(filtered)[j] => i = j

(* The source submitted second completed first; the cap and the cutoff     *)
(* both dropped items, and items of both sources are returned.             *)
C15_Witness ==
    /\ pc = "done"
    /\ all_news # <<>>
    /\ all_news[1].source = SOURCES[2].name
    /\ Len(limited0) < Len(Matched)
    /\ Len(filtered) < Len(limited0)
    /\ \A s \in SourceNames : FromSource(filtered, s) # <<>>
    /\ Len(FromSource(filtered, "CLS")) < Len(CappedOf("CLS"))

(* The API entries that have a title of some kind, in order: the ones the  *)
(* API strategy makes items of.                                            *)
TitledEntries ==
    SelectSeq(raw.entries,
              LAMBDA e : e.depth_title.len + e.title.len + e.content.len > 0)

(* C16 as stated: under every local UTC offset, the time resolved from the *)
(* rawTime of an API item with a non-zero ctime is the instant ctime.      *)
C16_AsStated ==
    (fetchPc = "done" /\ fetchArg.method = "cls_api" /\ ~raw.fails) =>
        /\ Len(fetched) = Len(TitledEntries)
        /\ \A i \in DOMAIN fetched :
              TitledEntries[i].ctime # 0 =>
                  _parse_time(fetched[i].time) = Known(TitledEntries[i].ctime)

=============================================================================
